---------------------------- MODULE Spec2Model ----------------------------
(***************************************************************************)
(* Access-control core of the Bulb API server: token issuance and          *)
(* verification (internal/services/auth_service.go), the request           *)
(* authenticator (middleware RequireAuth), and the ownership checks of     *)
(* the collection service (internal/services/collection_service.go) as     *)
(* driven by the collection HTTP handlers.                                 *)
(*                                                                         *)
(* Five specifications share the variables:                                *)
(*   Spec        the protected collection endpoints over the stored        *)
(*               collections and cards, one action per HTTP handler;       *)
(*   SpecToken   the token codec over a clock, one action per service      *)
(*               call;                                                     *)
(*   SpecAuth    registration, login, profile update, password change and  *)
(*               token refresh;                                            *)
(*   SpecSession one user's session over the clock: refreshes and          *)
(*               validations of the minted tokens;                         *)
(*   SpecRace    service calls of concurrent requests, one action per      *)
(*               repository call.                                          *)
(* Time is counted in hours, the unit of JWT.ExpiresIn.                    *)
(***************************************************************************)
EXTENDS Integers, Sequences, FiniteSets, TLC

VARIABLES
    users,        \* users table: id -> [Email, Password]
    collections,  \* collections table: id -> row, ids 1..Len assigned in order
    actions,      \* actions (cards) table: id -> row
    creator,      \* history: id -> identity whose request created the collection
    ctx,          \* gin.Context of the request being answered: header and identity
    last,         \* outcome of the last request
    now,          \* wall clock
    configSource, \* where the configuration is read from, and the lifetime written there
    expiresIn,    \* config.JWT.ExpiresIn
    issued,       \* history: tokens minted by CreateToken
    uuids,        \* number of UUIDs generated so far
    vlast,        \* outcome of the last token validation
    refreshed,    \* history: UUID of a presented token -> refreshes granted for it
    inflight      \* service calls in progress on concurrent requests: call -> its locals

vars == <<users, collections, actions, creator, ctx, last, now, configSource, expiresIn,
          issued, uuids, vlast, refreshed, inflight>>

---------------------------------------------------------------------------
(* Bounds *)

MaxCollections == 1
MaxActions == 1
MaxPlayCount == 1
MaxUsers == 2
MaxIssued == 2
MaxElapsed == 2
MaxTick == 1
MaxCalls == 2
MaxReissued == 2

(* Program constants *)

DefaultExpiresIn == 24
RefreshTokenHours == 24 * 7
JWTSecret == "secret"

StatusOK == 200
StatusCreated == 201
StatusBadRequest == 400
StatusUnauthorized == 401
StatusForbidden == 403
StatusNotFound == 404
StatusConflict == 409
StatusInternalServerError == 500

ErrCollectionNotFound == "collection not found"
ErrInvalidUserID == "invalid user ID"
ErrNotCollectionOwner == "user is not the owner of this collection"
ErrEmailAlreadyExists == "email already exists"
ErrInvalidCredentials == "invalid credentials"
ErrUserNotFound == "user not found"
ErrExpiredToken == "token has expired"
ErrInvalidToken == "token is invalid"

(* Errors that are not sentinels of the services package *)
NoError == "nil"
NotCalled == "not called"
ErrActionNotFound == "action with id not found"
ErrDB == "persistence error"
JwtValidationError == "jwt.ValidationError"

---------------------------------------------------------------------------
(* Input domains *)

UserIDs == 1 .. MaxUsers
\* secrets of at least six characters, as the binding of RegisterRequest requires
Passwords == {"secret1"}
WrongPasswords == {"secret2"}
Emails == {"a@x.com", "b@x.com"}
\* CollectionRequest bodies; Name is required by the binding
CollectionRequests ==
    {[Name |-> "", Description |-> "d", ImageURL |-> ""],
     [Name |-> "a", Description |-> "d", ImageURL |-> ""],
     [Name |-> "b", Description |-> "d", ImageURL |-> "img"]}
\* CreateActionRequest bodies; Text and Type are required by the binding
CreateActionRequests ==
    {[Text |-> "", Type |-> "truth", Order |-> 0],
     [Text |-> "t", Type |-> "other", Order |-> 0],
     [Text |-> "t", Type |-> "truth", Order |-> 0],
     [Text |-> "t", Type |-> "dare", Order |-> 1]}
\* index of the repository call of the request that fails transiently, 0 = none
Faults == {0, 1, 2, 3}
\* a path parameter: -1 stands for a segment strconv.ParseUint rejects
CollectionParams == {-1} \cup (1 .. (MaxCollections + 1))
ActionParams == {-1} \cup (1 .. (MaxActions + 1))

---------------------------------------------------------------------------
(* Configuration loader: pkg/config/config.go.  The text of a setting is   *)
(* the sequence of its characters; the empty sequence is a setting that is *)
(* not there (os.Getenv returns "" for an unset variable).                 *)

Digits == {"0", "1", "2", "3", "4", "5", "6", "7", "8", "9"}

DigitValue(ch) ==
    CASE ch = "0" -> 0 [] ch = "1" -> 1 [] ch = "2" -> 2 [] ch = "3" -> 3
      [] ch = "4" -> 4 [] ch = "5" -> 5 [] ch = "6" -> 6 [] ch = "7" -> 7
      [] ch = "8" -> 8 [] ch = "9" -> 9

RECURSIVE DecimalValue(_)
DecimalValue(text) ==
    IF text = <<>> THEN 0
    ELSE 10 * DecimalValue(SubSeq(text, 1, Len(text) - 1)) + DigitValue(text[Len(text)])

\* strconv.Atoi: an optional sign and then one or more decimal digits
Atoi(text) ==
    LET signed == text # <<>> /\ text[1] \in {"+", "-"}
        digits == IF signed THEN Tail(text) ELSE text
        ok == digits # <<>> /\ \A i \in DOMAIN digits : digits[i] \in Digits
    IN  [ok |-> ok,
         value |-> IF ~ok THEN 0
                   ELSE IF signed /\ text[1] = "-" THEN 0 - DecimalValue(digits)
                   ELSE DecimalValue(digits)]

\* JWT.ExpiresIn as loadFromEnv sets it from JWT_EXPIRES_IN
loadFromEnv(text) ==
    IF text # <<>> /\ Atoi(text).ok THEN Atoi(text).value ELSE DefaultExpiresIn

\* JWT.ExpiresIn as loadFromFile sets it from jwt.expiresin of config.yml,
\* an integer when the key is there
loadFromFile(text) ==
    IF text # <<>> THEN Atoi(text).value ELSE DefaultExpiresIn

LoadConfig(src) ==
    IF src.from = "env" THEN loadFromEnv(src.text) ELSE loadFromFile(src.text)

\* settings of the access-token lifetime: by default, zero, and one hour
ConfigSources ==
    {[from |-> "env", text |-> <<>>],
     [from |-> "env", text |-> <<"0">>],
     [from |-> "file", text |-> <<"1">>]}

ExpiresInValues == {LoadConfig(src) : src \in ConfigSources}

---------------------------------------------------------------------------
(* Token codec: auth_service.go *)

\* variant: the email claim is left at its zero value
AccessTokenSubjectOnly(u, email, uuid, t, hours) ==
    [alg |-> "HS256", key |-> JWTSecret, minted |-> "access",
     UserID |-> u, Email |-> "", UUID |-> uuid,
     ExpiresAt |-> t + hours, IssuedAt |-> t]

\* jwt claim set as CreateToken builds it.  minted is history only: the
\* serialized token has no kind field.
AccessToken(u, email, uuid, t, hours) ==
    [alg |-> "HS256", key |-> JWTSecret, minted |-> "access",
     UserID |-> u, Email |-> email, UUID |-> uuid,
     ExpiresAt |-> t + hours, IssuedAt |-> t]

RefreshToken(u, uuid, t) ==
    [alg |-> "HS256", key |-> JWTSecret, minted |-> "refresh",
     UserID |-> u, Email |-> "", UUID |-> uuid,
     ExpiresAt |-> t + RefreshTokenHours, IssuedAt |-> t]

\* variant: the refresh lifetime is a multiple of the configured lifetime
CreateTokenRefreshFollowsConfig(u, email, t, hours, n) ==
    [AccessToken  |-> AccessToken(u, email, n + 1, t, hours),
     RefreshToken |-> [RefreshToken(u, n + 2, t) EXCEPT !.ExpiresAt = t + 7 * hours],
     AtExpires    |-> t + hours,
     RtExpires    |-> t + 7 * hours]

\* variant: one generated identifier is used for both tokens of the pair
CreateTokenSharedUUID(u, email, t, hours, n) ==
    [AccessToken  |-> AccessToken(u, email, n + 1, t, hours),
     RefreshToken |-> RefreshToken(u, n + 1, t),
     AtExpires    |-> t + hours,
     RtExpires    |-> t + RefreshTokenHours]

\* TokenDetails of one CreateToken call at clock t with n UUIDs used so far
CreateToken(u, email, t, hours, n) ==
    [AccessToken  |-> AccessToken(u, email, n + 1, t, hours),
     RefreshToken |-> RefreshToken(u, n + 2, t),
     AtExpires    |-> t + hours,
     RtExpires    |-> t + RefreshTokenHours]

\* the key function passed to jwt.ParseWithClaims
IsHMAC(alg) == alg \in {"HS256", "HS384", "HS512"}

\* jwt.ParseWithClaims (golang-jwt v4) at clock t: the set of validation
\* failures; the returned error is nil iff the set is empty
ParseWithClaims(tok, t) ==
    (IF ~IsHMAC(tok.alg) THEN {"unverifiable"} ELSE {})
    \cup (IF IsHMAC(tok.alg) /\ tok.key # JWTSecret THEN {"signature"} ELSE {})
    \cup (IF ~(t < tok.ExpiresAt) THEN {"expired"} ELSE {})
    \cup (IF t < tok.IssuedAt THEN {"issued_at"} ELSE {})

\* the same parse with claims validation switched off
ParseUnvalidated(tok, t) ==
    (IF ~IsHMAC(tok.alg) THEN {"unverifiable"} ELSE {})
    \cup (IF IsHMAC(tok.alg) /\ tok.key # JWTSecret THEN {"signature"} ELSE {})

ValidateResult(err, flags, tok) ==
    [err |-> err, flags |-> flags,
     UserID |-> IF err = NoError THEN tok.UserID ELSE 0,
     Email |-> IF err = NoError THEN tok.Email ELSE ""]

\* variant: the parser does not validate the claims, line 128 alone
\* decides on the expiry
ValidateAccessTokenNoClaimsCheck(tok, t1, t2) ==
    LET flags == ParseUnvalidated(tok, t1) IN
    IF flags # {} THEN ValidateResult(JwtValidationError, flags, tok)
    ELSE IF tok.ExpiresAt < t2 THEN ValidateResult(ErrExpiredToken, {}, tok)
    ELSE ValidateResult(NoError, {}, tok)

\* t1 is the clock read inside the parse, t2 the clock read of line 128
ValidateAccessToken(tok, t1, t2) ==
    LET flags == ParseWithClaims(tok, t1)
        valid == flags = {}
    IN  IF flags # {} THEN ValidateResult(JwtValidationError, flags, tok)
        ELSE IF ~valid THEN ValidateResult(ErrInvalidToken, {}, tok)
        ELSE IF tok.ExpiresAt < t2 THEN ValidateResult(ErrExpiredToken, {}, tok)
        ELSE ValidateResult(NoError, {}, tok)

\* refreshes granted so far for the token with UUID u
Granted(u) == IF u \in DOMAIN refreshed THEN refreshed[u] ELSE 0

\* variant: a refresh token is accepted once, as with a revocation store
ValidateRefreshTokenSingleUse(tok, t1, t2) ==
    LET flags == ParseWithClaims(tok, t1) IN
    IF flags # {} THEN ValidateResult(JwtValidationError, flags, tok)
    ELSE IF Granted(tok.UUID) > 0 THEN ValidateResult(ErrInvalidToken, {}, tok)
    ELSE IF tok.ExpiresAt < t2 THEN ValidateResult(ErrExpiredToken, {}, tok)
    ELSE ValidateResult(NoError, {}, tok)

ValidateRefreshToken(tok, t1, t2) ==
    LET flags == ParseWithClaims(tok, t1)
        valid == flags = {}
    IN  IF flags # {} THEN ValidateResult(JwtValidationError, flags, tok)
        ELSE IF ~valid THEN ValidateResult(ErrInvalidToken, {}, tok)
        ELSE IF tok.ExpiresAt < t2 THEN ValidateResult(ErrExpiredToken, {}, tok)
        ELSE ValidateResult(NoError, {}, tok)

---------------------------------------------------------------------------
(* Request authenticator: middleware RequireAuth / GetUserID *)

\* Authorization header values: absent, another scheme, or Bearer <token>
NoHeader == [scheme |-> "", parts |-> 0]
BasicHeader == [scheme |-> "Basic", parts |-> 2]
Bearer(tok) == [scheme |-> "Bearer", parts |-> 2, token |-> tok]

\* variant: a request without a Bearer credential goes on anonymously
RequireAuthAnonymous(hdr, t1, t2) ==
    IF hdr.parts = 0 \/ hdr.parts # 2 \/ hdr.scheme # "Bearer"
    THEN [aborted |-> FALSE, status |-> 0, exists |-> FALSE, userID |-> 0, email |-> ""]
    ELSE LET claims == ValidateAccessToken(hdr.token, t1, t2) IN
         IF claims.err # NoError
         THEN [aborted |-> TRUE, status |-> StatusUnauthorized, exists |-> FALSE, userID |-> 0, email |-> ""]
         ELSE [aborted |-> FALSE, status |-> 0, exists |-> TRUE,
               userID |-> claims.UserID, email |-> claims.Email]

\* variant: the keys are set from the token before the error is looked at
RequireAuthSetsBeforeCheck(hdr, t1, t2) ==
    IF hdr.parts = 0
    THEN [aborted |-> TRUE, status |-> StatusUnauthorized, exists |-> FALSE, userID |-> 0, email |-> ""]
    ELSE IF hdr.parts # 2 \/ hdr.scheme # "Bearer"
    THEN [aborted |-> TRUE, status |-> StatusUnauthorized, exists |-> FALSE, userID |-> 0, email |-> ""]
    ELSE LET claims == ValidateAccessToken(hdr.token, t1, t2) IN
         IF claims.err # NoError
         THEN [aborted |-> TRUE, status |-> StatusUnauthorized, exists |-> TRUE,
               userID |-> hdr.token.UserID, email |-> hdr.token.Email]
         ELSE [aborted |-> FALSE, status |-> 0, exists |-> TRUE,
               userID |-> claims.UserID, email |-> claims.Email]

\* the request context after the middleware: aborted, or holding the identity
RequireAuth(hdr, t1, t2) ==
    IF hdr.parts = 0
    THEN [aborted |-> TRUE, status |-> StatusUnauthorized, exists |-> FALSE, userID |-> 0, email |-> ""]
    ELSE IF hdr.parts # 2 \/ hdr.scheme # "Bearer"
    THEN [aborted |-> TRUE, status |-> StatusUnauthorized, exists |-> FALSE, userID |-> 0, email |-> ""]
    ELSE LET claims == ValidateAccessToken(hdr.token, t1, t2) IN
         IF claims.err # NoError
         THEN [aborted |-> TRUE, status |-> StatusUnauthorized, exists |-> FALSE, userID |-> 0, email |-> ""]
         ELSE [aborted |-> FALSE, status |-> 0, exists |-> TRUE,
               userID |-> claims.UserID, email |-> claims.Email]

GetUserID(c) == IF ~c.exists THEN 0 ELSE c.userID

\* the context of a request: the Authorization header it came with and the
\* keys set on it
Context(hdr, c) == [hdr |-> hdr, c |-> c]

\* no request is being answered, or one of a route outside the protected group
NoContext ==
    Context(NoHeader, [aborted |-> FALSE, status |-> 0, exists |-> FALSE, userID |-> 0, email |-> ""])

---------------------------------------------------------------------------
(* Persistence: gorm tables with soft delete.  A table is a sequence of    *)
(* rows indexed by primary key; Deleted rows stay but are never returned.  *)

Live(table, id) == id \in DOMAIN table /\ ~table[id].Deleted

\* collectionRepository.GetByID / actionRepository.GetByID / userRepository.GetByID:
\* failed is the transient failure of this call
Found(table, id, failed) == ~failed /\ Live(table, id)

\* actionRepository.GetByCollectionID: the live cards of one collection
GetByCollectionID(acts, collectionID) ==
    {a \in DOMAIN acts : ~acts[a].Deleted /\ acts[a].CollectionID = collectionID}

\* gorm soft delete: deleted_at is set and no query returns the row again,
\* so only the mark is kept
SoftDelete(table, id) == [table EXCEPT ![id] = [Deleted |-> TRUE]]

---------------------------------------------------------------------------
(* Collection service: collection_service.go.  Each operator returns the   *)
(* error, whether a repository write was issued, and the tables after.     *)

Result(err, wrote, colls, acts) ==
    [err |-> err, wrote |-> wrote, collections |-> colls, actions |-> acts]

collectionService_Create(usrs, colls, acts, collection, f) ==
    IF ~(f # 1 /\ collection.UserID \in DOMAIN usrs)
    THEN Result(ErrInvalidUserID, FALSE, colls, acts)
    ELSE IF f = 2 THEN Result(ErrDB, TRUE, colls, acts)
    ELSE Result(NoError, TRUE,
                Append(colls, [Name |-> collection.Name,
                               Description |-> collection.Description,
                               ImageURL |-> collection.ImageURL,
                               UserID |-> collection.UserID,
                               PlayCount |-> 0, Deleted |-> FALSE]),
                acts)

\* variant: the request's struct, whose UserID is the zero value, is saved
UpdateFieldsFromRequest(existingCollection, collection) ==
    [existingCollection EXCEPT
        !.Name = collection.Name,
        !.Description = collection.Description,
        !.ImageURL = collection.ImageURL,
        !.UserID = 0]

\* lines 120-125: only the allowed fields are copied onto the stored row
UpdateFields(existingCollection, collection) ==
    [existingCollection EXCEPT
        !.Name = collection.Name,
        !.Description = collection.Description,
        !.ImageURL = IF collection.ImageURL # "" THEN collection.ImageURL ELSE @]

\* variant: the comparison of lines 115-117 is missing
collectionService_UpdateNoOwnerCheck(colls, acts, collection, userID, f) ==
    IF ~Found(colls, collection.ID, f = 1)
    THEN Result(ErrCollectionNotFound, FALSE, colls, acts)
    ELSE IF f = 2 THEN Result(ErrDB, TRUE, colls, acts)
    ELSE Result(NoError, TRUE,
                [colls EXCEPT ![collection.ID] = UpdateFields(@, collection)],
                acts)

\* variant: a foreign collection is reported as missing
collectionService_UpdateHidesExistence(colls, acts, collection, userID, f) ==
    IF ~Found(colls, collection.ID, f = 1)
    THEN Result(ErrCollectionNotFound, FALSE, colls, acts)
    ELSE IF colls[collection.ID].UserID # userID
    THEN Result(ErrCollectionNotFound, FALSE, colls, acts)
    ELSE IF f = 2 THEN Result(ErrDB, TRUE, colls, acts)
    ELSE Result(NoError, TRUE,
                [colls EXCEPT ![collection.ID] = UpdateFields(@, collection)],
                acts)

collectionService_Update(colls, acts, collection, userID, f) ==
    IF ~Found(colls, collection.ID, f = 1)
    THEN Result(ErrCollectionNotFound, FALSE, colls, acts)
    ELSE IF colls[collection.ID].UserID # userID
    THEN Result(ErrNotCollectionOwner, FALSE, colls, acts)
    ELSE IF f = 2 THEN Result(ErrDB, TRUE, colls, acts)
    ELSE Result(NoError, TRUE,
                [colls EXCEPT ![collection.ID] = UpdateFields(@, collection)],
                acts)

\* variant: the row is deleted before the owner is compared
collectionService_DeleteWriteFirst(colls, acts, id, userID, f) ==
    IF ~Found(colls, id, f = 1)
    THEN Result(ErrCollectionNotFound, FALSE, colls, acts)
    ELSE IF f = 2 THEN Result(ErrDB, TRUE, colls, acts)
    ELSE IF colls[id].UserID # userID
    THEN Result(ErrNotCollectionOwner, TRUE, SoftDelete(colls, id), acts)
    ELSE Result(NoError, TRUE, SoftDelete(colls, id), acts)

\* variant: a lookup that fails is taken as permission
collectionService_DeleteFailOpen(colls, acts, id, userID, f) ==
    IF ~Live(colls, id)
    THEN Result(ErrCollectionNotFound, FALSE, colls, acts)
    ELSE IF f # 1 /\ colls[id].UserID # userID
    THEN Result(ErrNotCollectionOwner, FALSE, colls, acts)
    ELSE IF f = 2 THEN Result(ErrDB, TRUE, colls, acts)
    ELSE Result(NoError, TRUE, SoftDelete(colls, id), acts)

collectionService_Delete(colls, acts, id, userID, f) ==
    IF ~Found(colls, id, f = 1)
    THEN Result(ErrCollectionNotFound, FALSE, colls, acts)
    ELSE IF colls[id].UserID # userID
    THEN Result(ErrNotCollectionOwner, FALSE, colls, acts)
    ELSE IF f = 2 THEN Result(ErrDB, TRUE, colls, acts)
    ELSE Result(NoError, TRUE, SoftDelete(colls, id), acts)

collectionService_IncrementPlayCount(colls, acts, id, f) ==
    IF ~Found(colls, id, f = 1)
    THEN Result(ErrCollectionNotFound, FALSE, colls, acts)
    ELSE IF f = 2 THEN Result(ErrDB, TRUE, colls, acts)
    ELSE Result(NoError, TRUE, [colls EXCEPT ![id].PlayCount = @ + 1], acts)

collectionService_AddAction(colls, acts, collectionID, action, f) ==
    IF ~Found(colls, collectionID, f = 1)
    THEN Result(ErrCollectionNotFound, FALSE, colls, acts)
    ELSE IF action.Order = 0 /\ f = 2
    THEN Result(ErrDB, FALSE, colls, acts)
    ELSE LET order == IF action.Order = 0
                      THEN Cardinality(GetByCollectionID(acts, collectionID)) + 1
                      ELSE action.Order
             createCall == IF action.Order = 0 THEN 3 ELSE 2
         IN  IF f = createCall THEN Result(ErrDB, TRUE, colls, acts)
             ELSE Result(NoError, TRUE, colls,
                         Append(acts, [CollectionID |-> collectionID,
                                       Order |-> order, Deleted |-> FALSE]))

\* variant: the comparison of lines 228-230 is missing
collectionService_RemoveActionNoOwnerCheck(colls, acts, actionID, userID, f) ==
    IF f = 1 THEN Result(ErrDB, FALSE, colls, acts)
    ELSE IF ~Live(acts, actionID)
    THEN Result(ErrActionNotFound, FALSE, colls, acts)
    ELSE IF ~Found(colls, acts[actionID].CollectionID, f = 2)
    THEN Result(ErrCollectionNotFound, FALSE, colls, acts)
    ELSE IF f = 3 THEN Result(ErrDB, TRUE, colls, acts)
    ELSE Result(NoError, TRUE, colls, SoftDelete(acts, actionID))

collectionService_RemoveAction(colls, acts, actionID, userID, f) ==
    IF f = 1 THEN Result(ErrDB, FALSE, colls, acts)
    ELSE IF ~Live(acts, actionID)
    THEN Result(ErrActionNotFound, FALSE, colls, acts)
    ELSE IF ~Found(colls, acts[actionID].CollectionID, f = 2)
    THEN Result(ErrCollectionNotFound, FALSE, colls, acts)
    ELSE IF colls[acts[actionID].CollectionID].UserID # userID
    THEN Result(ErrNotCollectionOwner, FALSE, colls, acts)
    ELSE IF f = 3 THEN Result(ErrDB, TRUE, colls, acts)
    ELSE Result(NoError, TRUE, colls, SoftDelete(acts, actionID))

---------------------------------------------------------------------------
(* User service: user_service.go *)

\* bcrypt.GenerateFromPassword / CompareHashAndPassword.  A hash is a string,
\* as the secret is: the prefix of the bcrypt format and the digest, which
\* stands for the secret it was made from.
Hash(password) == "$2a$10$" \o password

\* variant: the stored value is compared with the cleartext
VerifyCleartext(hash, password) == hash = password

Verify(hash, password) == hash = Hash(password)

EmailTaken(usrs, email) == \E i \in DOMAIN usrs : usrs[i].Email = email

\* variant: the secret is hashed before the email is looked up
userService_CreateHashFirst(usrs, user, f) ==
    IF f # 1 /\ EmailTaken(usrs, user.Email)
    THEN [err |-> ErrEmailAlreadyExists, hashed |-> TRUE, users |-> usrs]
    ELSE IF f = 2 \/ EmailTaken(usrs, user.Email)
    THEN [err |-> ErrDB, hashed |-> TRUE, users |-> usrs]
    ELSE [err |-> NoError, hashed |-> TRUE,
          users |-> Append(usrs, [Email |-> user.Email, Password |-> Hash(user.Password)])]

\* hashed: bcrypt.GenerateFromPassword was called
userService_Create(usrs, user, f) ==
    IF f # 1 /\ EmailTaken(usrs, user.Email)
    THEN [err |-> ErrEmailAlreadyExists, hashed |-> FALSE, users |-> usrs]
    \* the insert fails transiently or on the unique index of users.email
    ELSE IF f = 2 \/ EmailTaken(usrs, user.Email)
    THEN [err |-> ErrDB, hashed |-> TRUE, users |-> usrs]
    ELSE [err |-> NoError, hashed |-> TRUE,
          users |-> Append(usrs, [Email |-> user.Email, Password |-> Hash(user.Password)])]

\* variant: the row is returned without its email
userService_GetByIDNoEmail(usrs, id, failed) ==
    IF failed \/ id \notin DOMAIN usrs
    THEN [err |-> ErrUserNotFound, ID |-> 0, Email |-> ""]
    ELSE [err |-> NoError, ID |-> id, Email |-> ""]

\* variant: a read that fails is not reported
userService_GetByIDIgnoresFailure(usrs, id, failed) ==
    IF id \notin DOMAIN usrs
    THEN [err |-> ErrUserNotFound, ID |-> 0, Email |-> ""]
    ELSE [err |-> NoError, ID |-> id, Email |-> usrs[id].Email]

userService_GetByID(usrs, id, failed) ==
    IF failed \/ id \notin DOMAIN usrs
    THEN [err |-> ErrUserNotFound, ID |-> 0, Email |-> ""]
    ELSE [err |-> NoError, ID |-> id, Email |-> usrs[id].Email]

\* variant: the secret the caller supplied is saved as it is
userService_UpdateStoresCleartext(usrs, user, f, first) ==
    LET changed == user.ID \in DOMAIN usrs /\ user.Email # usrs[user.ID].Email
        taken == \E i \in DOMAIN usrs : i # user.ID /\ usrs[i].Email = user.Email
        saveCall == IF changed THEN first + 2 ELSE first + 1
    IN  IF f = first \/ user.ID \notin DOMAIN usrs
        THEN [err |-> ErrUserNotFound, users |-> usrs]
        ELSE IF changed /\ f # first + 1 /\ taken
        THEN [err |-> ErrEmailAlreadyExists, users |-> usrs]
        ELSE IF f = saveCall \/ taken
        THEN [err |-> ErrDB, users |-> usrs]
        ELSE [err |-> NoError,
              users |-> [usrs EXCEPT ![user.ID] =
                            [Email |-> user.Email,
                             Password |-> IF user.Password # ""
                                          THEN user.Password
                                          ELSE usrs[user.ID].Password]]]

\* user is the row as the caller changed it; f counts the repository calls
\* from first, the index of GetByID
userService_Update(usrs, user, f, first) ==
    LET changed == user.ID \in DOMAIN usrs /\ user.Email # usrs[user.ID].Email
        taken == \E i \in DOMAIN usrs : i # user.ID /\ usrs[i].Email = user.Email
        saveCall == IF changed THEN first + 2 ELSE first + 1
    IN  IF f = first \/ user.ID \notin DOMAIN usrs
        THEN [err |-> ErrUserNotFound, users |-> usrs]
        ELSE IF changed /\ f # first + 1 /\ taken
        THEN [err |-> ErrEmailAlreadyExists, users |-> usrs]
        \* Save fails transiently or on the unique index of users.email
        ELSE IF f = saveCall \/ taken
        THEN [err |-> ErrDB, users |-> usrs]
        ELSE [err |-> NoError,
              users |-> [usrs EXCEPT ![user.ID] =
                            [Email |-> user.Email,
                             \* lines 100-109: a secret that is given and is not
                             \* the stored value is hashed
                             Password |-> IF /\ user.Password # ""
                                             /\ user.Password # usrs[user.ID].Password
                                          THEN Hash(user.Password)
                                          ELSE usrs[user.ID].Password]]]

\* variant: an unknown email is reported as such
userService_AuthenticateTellsUnknown(usrs, email, password, f) ==
    IF f = 1 \/ ~EmailTaken(usrs, email)
    THEN [err |-> ErrUserNotFound, ID |-> 0]
    ELSE LET id == CHOOSE i \in DOMAIN usrs : usrs[i].Email = email IN
         IF ~Verify(usrs[id].Password, password)
         THEN [err |-> ErrInvalidCredentials, ID |-> 0]
         ELSE [err |-> NoError, ID |-> id]

userService_Authenticate(usrs, email, password, f) ==
    IF f = 1 \/ ~EmailTaken(usrs, email)
    THEN [err |-> ErrInvalidCredentials, ID |-> 0]
    ELSE LET id == CHOOSE i \in DOMAIN usrs : usrs[i].Email = email IN
         IF ~Verify(usrs[id].Password, password)
         THEN [err |-> ErrInvalidCredentials, ID |-> 0]
         ELSE [err |-> NoError, ID |-> id]

---------------------------------------------------------------------------
(* Credentials a client can present: the tokens the server minted, and     *)
(* variants of them made without the signing key.                          *)

\* re-signed with a key that is not the server's, unsigned, signed with the
\* server's key under another HMAC algorithm, or under an asymmetric algorithm
Forged(tok) ==
    {[tok EXCEPT !.key = "other"],
     [tok EXCEPT !.key = "", !.alg = "none"],
     [tok EXCEPT !.alg = "HS384"],
     [tok EXCEPT !.key = "other", !.alg = "RS256"]}

Presentable(iss) == iss \cup UNION {Forged(tok) : tok \in iss}

\* Authorization headers of requests to the protected routes: none, another
\* scheme, a minted token, or an access token re-signed with another key
Headers(iss) ==
    {NoHeader, BasicHeader}
    \cup {Bearer(tok) : tok \in iss}
    \cup {Bearer([tok EXCEPT !.key = "other"]) : tok \in {x \in iss : x.minted = "access"}}

---------------------------------------------------------------------------
(* The outcome of one request, as recorded in last *)

\* op, the identity read from the context (0: none), the target id, the
\* response status, the service error, whether a repository write was issued,
\* whether the target existed and who owned its collection before the call,
\* and which repository call failed transiently
Outcome(op, uid, id, status, err, wrote, existed, owner, fault) ==
    [op |-> op, uid |-> uid, id |-> id, status |-> status, err |-> err,
     wrote |-> wrote, existed |-> existed, owner |-> owner, fault |-> fault]

NoOutcome == Outcome("None", 0, 0, 0, NotCalled, FALSE, FALSE, 0, 0)

\* recorded owner of a live collection, 0 when there is none
OwnerOf(colls, id) == IF Live(colls, id) THEN colls[id].UserID ELSE 0

\* parent collection of a live card, 0 when there is none
ParentOf(acts, actionID) == IF Live(acts, actionID) THEN acts[actionID].CollectionID ELSE 0

---------------------------------------------------------------------------
(* HTTP handlers: status of the response for a service error *)

CollectionHandler_UpdateStatus(err) ==
    IF err = NoError THEN StatusOK
    ELSE IF err = ErrCollectionNotFound THEN StatusNotFound
    ELSE IF err = ErrNotCollectionOwner THEN StatusForbidden
    ELSE StatusInternalServerError

CollectionHandler_DeleteStatus(err) ==
    IF err = NoError THEN StatusOK
    ELSE IF err = ErrCollectionNotFound THEN StatusNotFound
    ELSE IF err = ErrNotCollectionOwner THEN StatusForbidden
    ELSE StatusInternalServerError

CollectionHandler_RemoveActionStatus(err) ==
    IF err = NoError THEN StatusOK
    ELSE IF err = ErrCollectionNotFound THEN StatusNotFound
    ELSE IF err = ErrNotCollectionOwner THEN StatusForbidden
    ELSE StatusInternalServerError

CollectionHandler_AddActionStatus(err) ==
    IF err = NoError THEN StatusCreated
    ELSE IF err = ErrCollectionNotFound THEN StatusNotFound
    ELSE StatusInternalServerError

CollectionHandler_CreateStatus(err) ==
    IF err = NoError THEN StatusCreated ELSE StatusInternalServerError

AuthHandler_RegisterStatus(err) ==
    IF err = NoError THEN StatusCreated
    ELSE IF err = ErrEmailAlreadyExists THEN StatusConflict
    ELSE StatusInternalServerError

AuthHandler_LoginStatus(err) ==
    IF err = NoError THEN StatusOK
    ELSE IF err = ErrInvalidCredentials THEN StatusUnauthorized
    ELSE StatusInternalServerError

\* the text of the error response of Login
AuthHandler_LoginBody(err) ==
    IF err = NoError THEN "TokenResponse"
    ELSE IF err = ErrInvalidCredentials THEN "Invalid credentials"
    ELSE "Authentication failed"

UserHandler_UpdateProfileStatus(err) ==
    IF err = NoError THEN StatusOK
    ELSE IF err = ErrEmailAlreadyExists THEN StatusConflict
    ELSE StatusInternalServerError

\* the response status when the request ends before the service is called,
\* 0 when the service is called: the middleware, then the path parameter,
\* then the body, then the identity read from the context
EarlyStatus(c, parseOK, bindOK) ==
    IF c.aborted THEN c.status
    ELSE IF ~parseOK THEN StatusBadRequest
    ELSE IF ~bindOK THEN StatusBadRequest
    ELSE IF GetUserID(c) = 0 THEN StatusUnauthorized
    ELSE 0

---------------------------------------------------------------------------
(* Initial state: empty tables, no token issued, clock at 0.  Exactly one  *)
(* request is handled at a time: a handler runs when no response is        *)
(* pending, and Respond delivers the pending response.                     *)

NoValidation == [fn |-> "None"]

\* the requests served concurrently, and a request with no service call running
Calls == 1 .. MaxCalls
NoCall == [pc |-> "idle"]

Init ==
    /\ users = <<>>
    /\ collections = <<>>
    /\ actions = <<>>
    /\ creator = <<>>
    /\ ctx = NoContext
    /\ last = NoOutcome
    /\ now = 0
    /\ configSource \in ConfigSources
    /\ expiresIn = LoadConfig(configSource)
    /\ issued = {}
    /\ uuids = 0
    /\ vlast = NoValidation
    /\ refreshed = [u \in {} |-> 0]
    /\ inflight = [p \in Calls |-> NoCall]

Idle == last = NoOutcome /\ vlast = NoValidation

Respond ==
    /\ ~Idle
    /\ ctx' = NoContext
    /\ last' = NoOutcome
    /\ vlast' = NoValidation
    /\ UNCHANGED <<users, collections, actions, creator, now, configSource, refreshed, inflight, expiresIn, issued, uuids>>

---------------------------------------------------------------------------
(* Authentication endpoints: AuthHandler.Register / Login *)

\* tokens are minted up to the instant MaxTick of the explored clock
Mint(userID, email) ==
    LET td == CreateToken(userID, email, now, expiresIn, uuids) IN
    /\ now <= MaxTick
    /\ issued' = issued \cup {td.AccessToken, td.RefreshToken}
    /\ uuids' = uuids + 2

AuthHandler_Register(email, password, f) ==
    /\ Idle
    /\ Len(users) < MaxUsers
    /\ uuids < 2 * MaxIssued
    /\ LET r == userService_Create(users, [Email |-> email, Password |-> password], f) IN
       /\ users' = r.users
       /\ last' = Outcome("Register", 0, 0, AuthHandler_RegisterStatus(r.err), r.err,
                          r.err = NoError, EmailTaken(users, email), 0, f)
       /\ IF r.err = NoError
          THEN Mint(Len(r.users), email)
          ELSE UNCHANGED <<issued, uuids>>
    /\ UNCHANGED <<ctx, collections, actions, creator, now, configSource, refreshed, inflight, expiresIn, vlast>>

AuthHandler_Login(email, password, f) ==
    /\ Idle
    /\ uuids < 2 * MaxIssued
    /\ LET r == userService_Authenticate(users, email, password, f) IN
       /\ last' = Outcome("Login", 0, 0, AuthHandler_LoginStatus(r.err), r.err,
                          FALSE, EmailTaken(users, email), 0, f)
       /\ IF r.err = NoError
          THEN Mint(r.ID, users[r.ID].Email)
          ELSE UNCHANGED <<issued, uuids>>
    /\ UNCHANGED <<ctx, users, collections, actions, creator, now, configSource, refreshed, inflight, expiresIn, vlast>>

\* POST /auth/refresh; the body carries the token, or nothing.  The outcome
\* records the UUID of the presented token as its id.
AuthHandler_RefreshToken(req, f) ==
    /\ Idle
    /\ IF req.RefreshToken = <<>>
       THEN /\ last' = Outcome("RefreshToken", 0, 0, StatusBadRequest, NotCalled,
                               FALSE, FALSE, 0, 0)
            /\ UNCHANGED <<issued, uuids, refreshed>>
       ELSE LET claims == ValidateRefreshToken(req.RefreshToken[1], now, now)
                user == userService_GetByID(users, claims.UserID, f = 1)
            IN  IF claims.err # NoError
                THEN /\ last' = Outcome("RefreshToken", 0, req.RefreshToken[1].UUID,
                                        StatusUnauthorized, claims.err, FALSE, FALSE, 0, 0)
                     /\ UNCHANGED <<issued, uuids, refreshed>>
                ELSE IF user.err # NoError
                THEN /\ last' = Outcome("RefreshToken", claims.UserID, req.RefreshToken[1].UUID,
                                        StatusInternalServerError, user.err,
                                        FALSE, claims.UserID \in DOMAIN users, 0, f)
                     /\ UNCHANGED <<issued, uuids, refreshed>>
                ELSE /\ last' = Outcome("RefreshToken", claims.UserID, req.RefreshToken[1].UUID,
                                        StatusOK, NoError, FALSE, TRUE, 0, f)
                     /\ Mint(user.ID, user.Email)
                     /\ refreshed' = [u \in DOMAIN refreshed \cup {req.RefreshToken[1].UUID} |->
                                         IF u = req.RefreshToken[1].UUID
                                         THEN Granted(u) + 1
                                         ELSE refreshed[u]]
    /\ UNCHANGED <<ctx, users, collections, actions, creator, now, configSource, inflight, expiresIn, vlast>>

\* a refresh explored while fewer than pairs token pairs were minted
Refresh(req, f, pairs) == uuids < 2 * pairs /\ AuthHandler_RefreshToken(req, f)

---------------------------------------------------------------------------
(* Protected profile endpoint: RequireAuth, then UserHandler.UpdateProfile *)

\* f: 1 the handler's GetByID, 2.. the repository calls of userService.Update
UserHandler_UpdateProfile(hdr, req, f) ==
    /\ Idle
    /\ ctx' = Context(hdr, RequireAuth(hdr, now, now))
    /\ LET c == RequireAuth(hdr, now, now)
           userID == GetUserID(c)
           user == userService_GetByID(users, userID, f = 1)
           \* the row the handler read, with the fields of the request
           r == userService_Update(users, [ID |-> userID, Email |-> req.Email,
                                           Password |-> users[userID].Password], f, 2)
       IN  IF c.aborted
           THEN /\ last' = Outcome("UpdateProfile", userID, userID, c.status, NotCalled,
                                   FALSE, FALSE, 0, 0)
                /\ UNCHANGED users
           ELSE IF userID = 0
           THEN /\ last' = Outcome("UpdateProfile", userID, userID, StatusUnauthorized,
                                   NotCalled, FALSE, FALSE, 0, 0)
                /\ UNCHANGED users
           ELSE IF req.Email = ""
           THEN /\ last' = Outcome("UpdateProfile", userID, userID, StatusBadRequest,
                                   NotCalled, FALSE, FALSE, 0, 0)
                /\ UNCHANGED users
           ELSE IF user.err # NoError
           THEN /\ last' = Outcome("UpdateProfile", userID, userID, StatusNotFound,
                                   user.err, FALSE, userID \in DOMAIN users, 0, f)
                /\ UNCHANGED users
           ELSE /\ last' = Outcome("UpdateProfile", userID, userID,
                                   UserHandler_UpdateProfileStatus(r.err), r.err,
                                   r.users # users, TRUE, userID,
                                   \* the fourth call is only made when the email changes
                                   IF f = 4 /\ req.Email = users[userID].Email THEN 0 ELSE f)
                /\ users' = r.users
    /\ UNCHANGED <<collections, actions, creator, now, configSource, refreshed, inflight, expiresIn, issued, uuids, vlast>>

\* userService.Update called with a secret, the stored value or none, the
\* email as stored; no route of cmd/api/main.go supplies a secret
UserUpdate(id, password, f) ==
    /\ Idle
    /\ LET email == IF id \in DOMAIN users THEN users[id].Email ELSE ""
           r == userService_Update(users, [ID |-> id, Email |-> email, Password |-> password],
                                   f, 1)
       IN  /\ last' = Outcome("UserUpdate", id, id, 0, r.err, r.err = NoError \/ f = 2,
                              id \in DOMAIN users, id, f)
           /\ users' = r.users
    /\ UNCHANGED <<ctx, collections, actions, creator, now, configSource, refreshed, inflight,
                   expiresIn, issued, uuids, vlast>>

\* what a caller of userService.Update puts in the Password field of user
\* id: nothing, a secret, or the value stored for that user
UpdatePasswords(usrs, id) ==
    {""} \cup Passwords \cup WrongPasswords \cup {usrs[i].Password : i \in DOMAIN usrs \cap {id}}

---------------------------------------------------------------------------
(* Protected collection endpoints: RequireAuth, then the handler *)

CollectionHandler_Create(hdr, req, f) ==
    /\ Idle
    /\ Len(collections) < MaxCollections
    /\ ctx' = Context(hdr, RequireAuth(hdr, now, now))
    /\ LET c == RequireAuth(hdr, now, now)
           userID == GetUserID(c)
           early == EarlyStatus(c, TRUE, req.Name # "")
           collection == [Name |-> req.Name, Description |-> req.Description,
                          ImageURL |-> req.ImageURL, UserID |-> userID]
           r == collectionService_Create(users, collections, actions, collection, f)
       IN  IF early # 0
           THEN /\ last' = Outcome("Create", userID, 0, early, NotCalled, FALSE, FALSE, 0, 0)
                /\ UNCHANGED <<collections, creator>>
           ELSE /\ last' = Outcome("Create", userID, Len(r.collections),
                                   CollectionHandler_CreateStatus(r.err), r.err,
                                   r.wrote, FALSE, 0, f)
                /\ collections' = r.collections
                /\ creator' = IF r.err = NoError THEN Append(creator, userID) ELSE creator
    /\ UNCHANGED <<users, actions, now, configSource, refreshed, inflight, expiresIn, issued, uuids, vlast>>

CollectionHandler_Update(hdr, idp, req, f) ==
    /\ Idle
    /\ ctx' = Context(hdr, RequireAuth(hdr, now, now))
    /\ LET c == RequireAuth(hdr, now, now)
           userID == GetUserID(c)
           early == EarlyStatus(c, idp >= 0, req.Name # "")
           collection == [ID |-> idp, Name |-> req.Name, Description |-> req.Description,
                          ImageURL |-> req.ImageURL]
           r == collectionService_Update(collections, actions, collection, userID, f)
           existed == Live(collections, idp)
           owner == OwnerOf(collections, idp)
       IN  IF early # 0
           THEN /\ last' = Outcome("Update", userID, idp, early, NotCalled, FALSE, existed, owner, 0)
                /\ UNCHANGED collections
           ELSE /\ last' = Outcome("Update", userID, idp,
                                   CollectionHandler_UpdateStatus(r.err), r.err,
                                   r.wrote, existed, owner, f)
                /\ collections' = r.collections
    /\ UNCHANGED <<users, actions, creator, now, configSource, refreshed, inflight, expiresIn, issued, uuids, vlast>>

CollectionHandler_Delete(hdr, idp, f) ==
    /\ Idle
    /\ ctx' = Context(hdr, RequireAuth(hdr, now, now))
    /\ LET c == RequireAuth(hdr, now, now)
           userID == GetUserID(c)
           early == EarlyStatus(c, idp >= 0, TRUE)
           r == collectionService_Delete(collections, actions, idp, userID, f)
           existed == Live(collections, idp)
           owner == OwnerOf(collections, idp)
       IN  IF early # 0
           THEN /\ last' = Outcome("Delete", userID, idp, early, NotCalled, FALSE, existed, owner, 0)
                /\ UNCHANGED collections
           ELSE /\ last' = Outcome("Delete", userID, idp,
                                   CollectionHandler_DeleteStatus(r.err), r.err,
                                   r.wrote, existed, owner, f)
                /\ collections' = r.collections
    /\ UNCHANGED <<users, actions, creator, now, configSource, refreshed, inflight, expiresIn, issued, uuids, vlast>>

CollectionHandler_AddAction(hdr, idp, req, f) ==
    /\ Idle
    /\ Len(actions) < MaxActions
    /\ ctx' = Context(hdr, RequireAuth(hdr, now, now))
    /\ LET c == RequireAuth(hdr, now, now)
           userID == GetUserID(c)
           early == EarlyStatus(c, idp >= 0, req.Text # "" /\ req.Type # "")
           action == [Order |-> req.Order]
           r == collectionService_AddAction(collections, actions, idp, action, f)
           existed == Live(collections, idp)
           owner == OwnerOf(collections, idp)
       IN  IF early # 0
           THEN /\ last' = Outcome("AddAction", userID, idp, early, NotCalled, FALSE, existed, owner, 0)
                /\ UNCHANGED actions
           ELSE IF req.Type \notin {"truth", "dare"}
           THEN /\ last' = Outcome("AddAction", userID, idp, StatusBadRequest, NotCalled,
                                   FALSE, existed, owner, 0)
                /\ UNCHANGED actions
           ELSE /\ last' = Outcome("AddAction", userID, idp,
                                   CollectionHandler_AddActionStatus(r.err), r.err,
                                   r.wrote, existed, owner, f)
                /\ actions' = r.actions
    /\ UNCHANGED <<users, collections, creator, now, configSource, refreshed, inflight, expiresIn, issued, uuids, vlast>>

CollectionHandler_RemoveAction(hdr, idp, f) ==
    /\ Idle
    /\ ctx' = Context(hdr, RequireAuth(hdr, now, now))
    /\ LET c == RequireAuth(hdr, now, now)
           userID == GetUserID(c)
           early == EarlyStatus(c, idp >= 0, TRUE)
           r == collectionService_RemoveAction(collections, actions, idp, userID, f)
           existed == Live(actions, idp)
           owner == OwnerOf(collections, ParentOf(actions, idp))
       IN  IF early # 0
           THEN /\ last' = Outcome("RemoveAction", userID, idp, early, NotCalled, FALSE, existed, owner, 0)
                /\ UNCHANGED actions
           ELSE /\ last' = Outcome("RemoveAction", userID, idp,
                                   CollectionHandler_RemoveActionStatus(r.err), r.err,
                                   r.wrote, existed, owner, f)
                /\ actions' = r.actions
    /\ UNCHANGED <<users, collections, creator, now, configSource, refreshed, inflight, expiresIn, issued, uuids, vlast>>

\* the service method; no route of cmd/api/main.go reaches it
IncrementPlayCount(id, f) ==
    /\ Idle
    /\ Live(collections, id) => collections[id].PlayCount < MaxPlayCount
    /\ LET r == collectionService_IncrementPlayCount(collections, actions, id, f) IN
       /\ last' = Outcome("IncrementPlayCount", 0, id, 0, r.err, r.wrote,
                          Live(collections, id), OwnerOf(collections, id), f)
       /\ collections' = r.collections
    /\ UNCHANGED <<ctx, users, actions, creator, now, configSource, refreshed, inflight, expiresIn, issued, uuids, vlast>>

Next ==
    \/ \E e \in Emails, p \in Passwords, f \in 0 .. 2 : AuthHandler_Register(e, p, f)
    \/ \E h \in Headers(issued), req \in CollectionRequests, f \in 0 .. 2 :
          CollectionHandler_Create(h, req, f)
    \/ \E h \in Headers(issued), id \in CollectionParams, req \in CollectionRequests,
          f \in 0 .. 2 :
          CollectionHandler_Update(h, id, req, f)
    \/ \E h \in Headers(issued), id \in CollectionParams, f \in 0 .. 2 :
          CollectionHandler_Delete(h, id, f)
    \/ \E h \in Headers(issued), id \in CollectionParams, req \in CreateActionRequests,
          f \in Faults :
          CollectionHandler_AddAction(h, id, req, f)
    \/ \E h \in Headers(issued), id \in ActionParams, f \in Faults :
          CollectionHandler_RemoveAction(h, id, f)
    \/ \E id \in 1 .. (MaxCollections + 1), f \in 0 .. 2 : IncrementPlayCount(id, f)
    \/ Respond

InitDefault == Init /\ expiresIn = DefaultExpiresIn

Spec == InitDefault /\ [][Next]_vars

---------------------------------------------------------------------------
(* Token codec over the clock *)

\* The clock moves forward by any amount.  Unit steps are explored up to
\* MaxTick; later instants are those next to the expiry of a minted token.
Instants ==
    {now + 1 : x \in {y \in {0} : now < MaxTick}}
    \cup {tok.ExpiresAt + k : tok \in issued, k \in {-1, 0, 1}}

Advance(t) ==
    /\ Idle
    /\ t > now
    /\ now' = t
    /\ UNCHANGED <<ctx, users, collections, actions, creator, last, configSource, refreshed, inflight, expiresIn, issued, uuids, vlast>>

\* a call of authService.ValidateAccessToken; d is the time that passes
\* between its two readings of the clock, the second one falling on an
\* explored instant
CallValidateAccessToken(tok, d) ==
    /\ Idle
    /\ d = 0 \/ now + d \in Instants
    /\ vlast' = [fn |-> "ValidateAccessToken", tok |-> tok, t1 |-> now, t2 |-> now + d,
                 res |-> ValidateAccessToken(tok, now, now + d)]
    /\ now' = now + d
    /\ UNCHANGED <<ctx, users, collections, actions, creator, last, configSource, refreshed, inflight, expiresIn, issued, uuids>>

CallValidateRefreshToken(tok, d) ==
    /\ Idle
    /\ d = 0 \/ now + d \in Instants
    /\ vlast' = [fn |-> "ValidateRefreshToken", tok |-> tok, t1 |-> now, t2 |-> now + d,
                 res |-> ValidateRefreshToken(tok, now, now + d)]
    /\ now' = now + d
    /\ UNCHANGED <<ctx, users, collections, actions, creator, last, configSource, refreshed, inflight, expiresIn, issued, uuids>>

\* bodies of POST /auth/refresh: without the token, or with a credential
RefreshTokenRequests(iss) ==
    {[RefreshToken |-> <<>>]} \cup {[RefreshToken |-> <<tok>>] : tok \in Presentable(iss)}

NextToken ==
    \/ \E e \in Emails, p \in Passwords, f \in 0 .. 2 : AuthHandler_Register(e, p, f)
    \/ \E e \in Emails, p \in Passwords \cup WrongPasswords, f \in 0 .. 1 :
          AuthHandler_Login(e, p, f)
    \/ \E t \in Instants : Advance(t)
    \/ \E tok \in Presentable(issued), d \in 0 .. MaxElapsed : CallValidateAccessToken(tok, d)
    \/ \E tok \in Presentable(issued), d \in 0 .. MaxElapsed : CallValidateRefreshToken(tok, d)
    \/ Respond

SpecToken == Init /\ [][NextToken]_vars

---------------------------------------------------------------------------
(* Accounts and sessions: registration, login, profile update and refresh *)

UpdateProfileRequests == {[Email |-> e] : e \in Emails \cup {""}}

NextAuth ==
    \/ \E e \in Emails, p \in Passwords, f \in 0 .. 2 : AuthHandler_Register(e, p, f)
    \/ \E e \in Emails, p \in Passwords \cup WrongPasswords, f \in 0 .. 1 :
          AuthHandler_Login(e, p, f)
    \/ \E req \in RefreshTokenRequests(issued), f \in 0 .. 1 : Refresh(req, f, MaxIssued)
    \/ \E h \in Headers(issued), req \in UpdateProfileRequests, f \in 0 .. 4 :
          UserHandler_UpdateProfile(h, req, f)
    \/ \E id \in UserIDs, f \in 0 .. 2 :
          \E p \in UpdatePasswords(users, id) : UserUpdate(id, p, f)
    \/ Respond

SpecAuth == Init /\ [][NextAuth]_vars

---------------------------------------------------------------------------
(* One session over the clock: a user registers and refreshes, with the    *)
(* tokens minted so far, up to MaxReissued times; the minted tokens are    *)
(* validated as time passes                                                *)

NextSession ==
    \/ \E e \in Emails, p \in Passwords, f \in 0 .. 2 :
          users = <<>> /\ AuthHandler_Register(e, p, f)
    \/ \E tok \in issued, f \in 0 .. 1 :
          Refresh([RefreshToken |-> <<tok>>], f, 1 + MaxReissued)
    \/ \E t \in Instants : Advance(t)
    \/ \E tok \in issued, d \in 0 .. MaxElapsed : CallValidateAccessToken(tok, d)
    \/ \E tok \in issued, d \in 0 .. MaxElapsed : CallValidateRefreshToken(tok, d)
    \/ Respond

SpecSession == Init /\ [][NextSession]_vars

---------------------------------------------------------------------------
(* Properties of the ownership checks, specification Spec *)

ServiceCalled == last.err # NotCalled

\* C1: for an existing collection whose lookup succeeds, Update and Delete by
\* an identity other than the recorded owner return ErrNotCollectionOwner and
\* issue no write; by the owner they go on to the repository write.
C1_OwnerCheck ==
    (last.op \in {"Update", "Delete"} /\ ServiceCalled /\ last.existed /\ last.fault # 1)
    => /\ last.uid # last.owner => (last.err = ErrNotCollectionOwner /\ ~last.wrote)
       /\ last.uid = last.owner => (last.wrote /\ last.err \in {NoError, ErrDB})
       /\ (last.uid = last.owner /\ last.fault = 0) => last.err = NoError

C1_Witness ==
    /\ last.op = "Update" /\ last.existed
    /\ last.uid = last.owner /\ last.wrote /\ last.err = NoError
    /\ Live(collections, last.id) /\ collections[last.id].Name = "b"

\* C2: every write to an existing collection or to its cards (Update, Delete,
\* AddAction, RemoveAction) was issued for a request whose authenticated
\* identity is the recorded owner of that collection.
C2_OnlyOwnerWrites ==
    (last.op \in {"Update", "Delete", "AddAction", "RemoveAction"} /\ last.wrote)
    => last.uid = last.owner

\* C3: in Update, Delete and RemoveAction a call denied with NotFound or
\* NotOwner issues no repository write and leaves the stored collections and
\* cards as they were; NotOwner is only answered for a resource that was found.
C3_DeniedNoWrite ==
    [][(last'.op \in {"Update", "Delete", "RemoveAction"}
        /\ last'.err \in {ErrCollectionNotFound, ErrNotCollectionOwner})
       => /\ collections' = collections
          /\ actions' = actions
          /\ ~last'.wrote
          /\ last'.err = ErrNotCollectionOwner => (last'.existed /\ last'.owner # 0)]_vars

C3_Witness ==
    /\ last.op = "Delete" /\ last.err = ErrNotCollectionOwner
    /\ last.existed /\ last.uid \in DOMAIN users /\ Live(collections, last.id)

\* what a caller observes from PUT and DELETE /collections/:id
UpdateResponse(colls, id, uid) ==
    LET r == collectionService_Update(colls, actions,
                 [ID |-> id, Name |-> "a", Description |-> "d", ImageURL |-> ""], uid, 0)
    IN  [err |-> r.err, status |-> CollectionHandler_UpdateStatus(r.err)]

DeleteResponse(colls, id, uid) ==
    LET r == collectionService_Delete(colls, actions, id, uid, 0)
    IN  [err |-> r.err, status |-> CollectionHandler_DeleteStatus(r.err)]

\* a registered user and a live collection of somebody else
Foreign(uid, id) ==
    /\ uid \in DOMAIN users
    /\ Live(collections, id)
    /\ collections[id].UserID # uid

\* C4 as stated: a non-owner observes the same outcome from Update and Delete
\* whether the collection is absent or present with another owner.
C4_Indistinguishable ==
    \A uid \in UserIDs, id \in DOMAIN collections :
        Foreign(uid, id)
        => /\ UpdateResponse(collections, id, uid)
                = UpdateResponse(SoftDelete(collections, id), id, uid)
           /\ DeleteResponse(collections, id, uid)
                = DeleteResponse(SoftDelete(collections, id), id, uid)

\* C4 as amended: existence is resolved before ownership; a non-owner is
\* answered NotFound / 404 when the collection is absent and NotOwner / 403 when
\* it is present with another owner, so the two cases differ for the caller.
C4_Distinguishable ==
    \A uid \in UserIDs, id \in DOMAIN collections :
        Foreign(uid, id)
        => /\ UpdateResponse(collections, id, uid)
                = [err |-> ErrNotCollectionOwner, status |-> StatusForbidden]
           /\ UpdateResponse(SoftDelete(collections, id), id, uid)
                = [err |-> ErrCollectionNotFound, status |-> StatusNotFound]
           /\ DeleteResponse(collections, id, uid)
                = [err |-> ErrNotCollectionOwner, status |-> StatusForbidden]
           /\ DeleteResponse(SoftDelete(collections, id), id, uid)
                = [err |-> ErrCollectionNotFound, status |-> StatusNotFound]

C4_Witness ==
    /\ last.op = "Update" /\ last.status = StatusForbidden
    /\ Foreign(last.uid, last.id)

\* C5: when the target of Update, Delete (a collection id) or RemoveAction (a
\* card id) does not exist, the call is denied with ErrCollectionNotFound and
\* answered 404, whoever the caller is.
C5_UniformNotFound ==
    (last.op \in {"Update", "Delete", "RemoveAction"} /\ ServiceCalled
     /\ ~last.existed /\ last.fault = 0)
    => (last.err = ErrCollectionNotFound /\ last.status = StatusNotFound)

\* C6: for a live card of a live collection, RemoveAction deletes the card
\* iff the caller is the recorded owner of that parent collection and returns
\* ErrNotCollectionOwner otherwise.
C6_RemoveActionParentOwner ==
    (last.op = "RemoveAction" /\ ServiceCalled /\ last.existed
     /\ last.owner # 0 /\ last.fault = 0)
    => /\ last.uid = last.owner
            => (last.err = NoError /\ last.wrote /\ ~Live(actions, last.id))
       /\ last.uid # last.owner
            => (last.err = ErrNotCollectionOwner /\ ~last.wrote /\ Live(actions, last.id))

C6_Witness ==
    /\ last.op = "RemoveAction" /\ last.existed /\ last.owner # 0
    /\ last.uid = last.owner /\ last.err = NoError
    /\ ~Live(actions, last.id)

\* C7: the UserID of every stored collection is the identity whose request
\* created it, and no request changes the UserID of a stored collection.
C7_OwnerIsCreator ==
    /\ DOMAIN creator = DOMAIN collections
    /\ \A id \in DOMAIN collections :
          Live(collections, id)
          => (collections[id].UserID = creator[id] /\ creator[id] \in DOMAIN users)

C7_Witness ==
    \E id \in DOMAIN collections :
        /\ Live(collections, id)
        /\ collections[id].PlayCount > 0
        /\ last.op = "Update" /\ last.id = id /\ last.err = NoError
        /\ \E a \in DOMAIN actions : Live(actions, a) /\ actions[a].CollectionID = id

---------------------------------------------------------------------------
(* Properties of the token codec, specification SpecToken *)

CorrectlySigned(tok) == tok.alg = "HS256" /\ tok.key = JWTSecret

\* C8: with a positive configured lifetime, ValidateAccessToken accepts a
\* minted access token at its issue time and, once the clock has passed its
\* expiry, fails with ErrExpiredToken.
C8_ExpiredKind ==
    (vlast.fn = "ValidateAccessToken" /\ vlast.tok \in issued
     /\ vlast.tok.minted = "access" /\ expiresIn > 0)
    => /\ (vlast.t1 = vlast.tok.IssuedAt /\ vlast.t2 = vlast.t1) => vlast.res.err = NoError
       /\ vlast.t1 > vlast.tok.ExpiresAt => vlast.res.err = ErrExpiredToken

\* C9: ValidateAccessToken rejects a token signed with another key or not
\* signed at all, and the error is ErrInvalidToken.
C9_InvalidKind ==
    (vlast.fn = "ValidateAccessToken" /\ ~CorrectlySigned(vlast.tok))
    => (vlast.res.err # NoError /\ vlast.res.err = ErrInvalidToken)

\* C10: ValidateAccessToken and ValidateRefreshToken reject a correctly signed
\* token whose expiry is at or before the clock at the time of the call, the
\* instant of expiry included.
C10_RejectAtExpiry ==
    (vlast.fn \in {"ValidateAccessToken", "ValidateRefreshToken"}
     /\ CorrectlySigned(vlast.tok) /\ vlast.tok.ExpiresAt <= vlast.t1)
    => vlast.res.err # NoError

C10_Witness ==
    /\ vlast.fn = "ValidateRefreshToken"
    /\ vlast.tok \in issued /\ vlast.tok.minted = "refresh"
    /\ vlast.tok.ExpiresAt = vlast.t1
    /\ vlast.res.err # NoError


\* C11: every minted token expires strictly after it was issued, whatever
\* lifetime the configuration loader produced.
C11_ExpiryAfterIssue ==
    \A tok \in issued : tok.ExpiresAt > tok.IssuedAt

C13_OnlyHS256 ==
    (vlast.fn \in {"ValidateAccessToken", "ValidateRefreshToken"} /\ vlast.tok.alg # "HS256")
    => vlast.res.err # NoError

\* C14: no two minted tokens carry the same UUID, across calls of CreateToken
\* and within the pair of one call.
C14_FreshUUID ==
    /\ \A a, b \in issued : a.UUID = b.UUID => a = b
    /\ Cardinality(issued) = uuids

C14_Witness ==
    \E a, b \in issued :
        /\ a # b
        /\ a.minted = "access" /\ b.minted = "access"
        /\ a.UserID = b.UserID /\ a.Email = b.Email /\ a.IssuedAt = b.IssuedAt

---------------------------------------------------------------------------
(* Properties of accounts and sessions, specification SpecAuth *)

\* C15: the access token minted by a successful refresh carries the email
\* stored for the user at that moment, also when the profile update changed
\* it after the presented token was minted.
C15_RefreshCarriesCurrentEmail ==
    (last.op = "RefreshToken" /\ last.err = NoError)
    => /\ last.uid \in DOMAIN users
       /\ \E tok \in issued :
             /\ tok.minted = "access" /\ tok.UUID = uuids - 1
             /\ tok.UserID = last.uid
             /\ tok.Email = users[last.uid].Email

\* a refresh token of a login pair was presented after the email had changed
C15_Witness ==
    /\ last.op = "RefreshToken" /\ last.err = NoError
    /\ \E rt, at \in issued :
          /\ rt.minted = "refresh" /\ rt.UUID = last.id /\ rt.UserID = last.uid
          /\ at.minted = "access" /\ at.UUID = rt.UUID - 1
          /\ at.Email # users[last.uid].Email
    /\ \E tok \in issued : tok.UUID = uuids - 1 /\ tok.Email = users[last.uid].Email

\* C16: ValidateAccessToken applied before expiry to a minted access token
\* succeeds and returns the id and the email of the user it was minted for.
C16_RoundTrip ==
    (vlast.fn = "ValidateAccessToken" /\ vlast.tok \in issued
     /\ vlast.tok.minted = "access" /\ vlast.t2 < vlast.tok.ExpiresAt)
    => /\ vlast.res.err = NoError
       /\ vlast.res.UserID \in DOMAIN users
       /\ vlast.res.Email = users[vlast.res.UserID].Email
       /\ vlast.res.UserID = vlast.tok.UserID

C16_Witness ==
    /\ vlast.fn = "ValidateAccessToken" /\ vlast.tok \in issued
    /\ vlast.tok.minted = "access" /\ vlast.t1 > vlast.tok.IssuedAt
    /\ vlast.res.err = NoError /\ vlast.res.UserID = 2
    /\ vlast.res.Email = users[2].Email

---------------------------------------------------------------------------
(* Properties of the request authenticator, specification Spec *)

ProtectedOps == {"Create", "Update", "Delete", "AddAction", "RemoveAction", "UpdateProfile"}

\* no header, not of the form Bearer <token>, or a token that does not verify
BadCredential(hdr) ==
    \/ hdr.parts = 0
    \/ hdr.parts # 2
    \/ hdr.scheme # "Bearer"
    \/ ValidateAccessToken(hdr.token, now, now).err # NoError

\* C17: a request to a protected route without a valid Bearer credential is
\* aborted by RequireAuth with 401; its handler does not run: no service call,
\* no write, no identity.
C17_NoAnonymousPassThrough ==
    (last.op \in ProtectedOps /\ BadCredential(ctx.hdr))
    => /\ ctx.c.aborted /\ ~ctx.c.exists
       /\ last.status = StatusUnauthorized
       /\ last.err = NotCalled /\ ~last.wrote /\ last.uid = 0

C17_Witness ==
    /\ last.op = "Delete" /\ Live(collections, last.id)
    /\ ctx.hdr.scheme = "Bearer" /\ ctx.hdr.token.key # JWTSecret
    /\ ctx.hdr.token.UserID = collections[last.id].UserID
    /\ last.status = StatusUnauthorized

\* C18: the context of a request holds an identity only when its header was
\* Bearer <token> and ValidateAccessToken accepted the token, and then the
\* identity is the UserID and Email of the token; handlers read the identity
\* from the context and requests outside the protected group have none.
C18_IdentityFromToken ==
    /\ ctx.c.exists
          => /\ ctx.hdr.parts = 2 /\ ctx.hdr.scheme = "Bearer"
             /\ ValidateAccessToken(ctx.hdr.token, now, now).err = NoError
             /\ ctx.c.userID = ctx.hdr.token.UserID
             /\ ctx.c.email = ctx.hdr.token.Email
             /\ ~ctx.c.aborted
    /\ last.op \in ProtectedOps => last.uid = GetUserID(ctx.c)
    /\ last.op \notin ProtectedOps => ~ctx.c.exists

C18_Witness ==
    /\ last.op = "Create" /\ last.err = NoError
    /\ ctx.c.exists /\ ctx.c.userID = 2
    /\ ctx.c.email = users[2].Email

---------------------------------------------------------------------------
(* Properties of login and registration *)

\* what a caller observes from POST /auth/login
LoginResponse(usrs, email, password) ==
    LET r == userService_Authenticate(usrs, email, password, 0)
    IN  [err |-> r.err, status |-> AuthHandler_LoginStatus(r.err),
         body |-> AuthHandler_LoginBody(r.err)]

\* C19: a login with an email that is not registered and a login with a
\* registered email and a secret that does not match are answered alike:
\* ErrInvalidCredentials, 401 and the same body.
C19_NoEnumeration ==
    /\ \A e1, e2 \in Emails, p1, p2 \in Passwords \cup WrongPasswords :
          (/\ ~EmailTaken(users, e1)
           /\ \E i \in DOMAIN users : users[i].Email = e2 /\ ~Verify(users[i].Password, p2))
          => /\ LoginResponse(users, e1, p1) = LoginResponse(users, e2, p2)
             /\ LoginResponse(users, e1, p1).err = ErrInvalidCredentials
             /\ LoginResponse(users, e1, p1).status = StatusUnauthorized
    /\ (last.op = "Login" /\ last.err # NoError)
          => (last.err = ErrInvalidCredentials /\ last.status = StatusUnauthorized)

C19_Witness ==
    /\ last.op = "Login" /\ last.existed /\ last.fault = 0
    /\ last.err = ErrInvalidCredentials
    /\ \E e \in Emails : ~EmailTaken(users, e)

\* C20: a registration whose email belongs to a stored user (the lookup
\* succeeding) is rejected with ErrEmailAlreadyExists / 409 before the secret
\* is hashed; the users table is unchanged and no token is minted.
C20_DuplicateRejected ==
    /\ [](\A e \in Emails, p \in Passwords :
             EmailTaken(users, e)
             => LET r == userService_Create(users, [Email |-> e, Password |-> p], 0)
                IN  r.err = ErrEmailAlreadyExists /\ ~r.hashed /\ r.users = users)
    /\ [][(last'.op = "Register" /\ last'.existed /\ last'.fault # 1)
          => /\ last'.err = ErrEmailAlreadyExists
             /\ last'.status = StatusConflict
             /\ users' = users
             /\ issued' = issued /\ uuids' = uuids]_vars

C20_Witness ==
    /\ last.op = "Register" /\ last.existed
    /\ last.err = ErrEmailAlreadyExists
    /\ Len(users) = 1 /\ Cardinality(issued) = 2

---------------------------------------------------------------------------
(* Properties of secrets, specification SpecToken *)

AllSecrets == Passwords \cup WrongPasswords

\* C21: for a user registered with secret s, Authenticate with the user's
\* email and s succeeds and returns that user; with any other secret, the
\* stored hash itself included, it fails with ErrInvalidCredentials.
C21_HashVerifyRoundTrip ==
    /\ \A i \in DOMAIN users, s \in AllSecrets :
          users[i].Password = Hash(s)
          => \A s2 \in AllSecrets \cup {users[i].Password} :
                LET r == userService_Authenticate(users, users[i].Email, s2, 0)
                IN  IF s2 = s
                    THEN r.err = NoError /\ r.ID = i
                    ELSE r.err = ErrInvalidCredentials /\ r.ID = 0
    /\ (last.op = "Login" /\ last.err = NoError)
          => (last.existed /\ last.status = StatusOK)

C21_Witness ==
    /\ last.op = "Login" /\ last.err = NoError
    /\ \E i \in DOMAIN users : users[i].Password = Hash("secret1")
    /\ \E tok \in issued : tok.UUID = 3 /\ tok.UserID \in DOMAIN users

---------------------------------------------------------------------------
(* Failing lookups, specification Spec *)

\* C22: when the lookup of the target fails (the collection of Update and
\* Delete, the card of RemoveAction or that card's collection; the row is
\* missing or the read fails), the operation returns an error and writes
\* nothing: both tables stay as they were.
C22_FailedLookupDenies ==
    [][(\/ /\ last'.op \in {"Update", "Delete"}
           /\ last'.err # NotCalled
           /\ (last'.fault = 1 \/ ~Live(collections, last'.id))
        \/ /\ last'.op = "RemoveAction"
           /\ last'.err # NotCalled
           /\ \/ last'.fault = 1
              \/ ~Live(actions, last'.id)
              \/ last'.fault = 2
              \/ ~Live(collections, ParentOf(actions, last'.id)))
       => /\ last'.err # NoError
          /\ ~last'.wrote
          /\ collections' = collections
          /\ actions' = actions]_vars

C22_Witness ==
    /\ last.op = "RemoveAction" /\ last.fault = 2
    /\ last.err = ErrCollectionNotFound /\ ~last.wrote
    /\ Live(actions, last.id)
    /\ Live(collections, ParentOf(actions, last.id))
    /\ last.uid = OwnerOf(collections, ParentOf(actions, last.id))

---------------------------------------------------------------------------
(* Token kinds, specification SpecToken *)

\* C25: ValidateAccessToken accepts a minted token only if CreateToken minted
\* it as an access token, and ValidateRefreshToken only if it was minted as
\* a refresh token.
C25_KindsNotInterchangeable ==
    /\ (vlast.fn = "ValidateAccessToken" /\ vlast.tok \in issued /\ vlast.res.err = NoError)
          => vlast.tok.minted = "access"
    /\ (vlast.fn = "ValidateRefreshToken" /\ vlast.tok \in issued /\ vlast.res.err = NoError)
          => vlast.tok.minted = "refresh"

---------------------------------------------------------------------------
(* The refresh flow, specification SpecAuth *)

\* C29: when the refresh token is valid and the lookup of its subject fails,
\* POST /auth/refresh answers with an error (500) and CreateToken is not
\* called: no token is minted and no UUID is drawn.
C29_NoMintWithoutUser ==
    [][(/\ last'.op = "RefreshToken"
        /\ last'.uid # 0
        /\ (last'.fault = 1 \/ last'.uid \notin DOMAIN users))
       => /\ last'.err = ErrUserNotFound
          /\ last'.status = StatusInternalServerError
          /\ issued' = issued
          /\ uuids' = uuids
          /\ refreshed' = refreshed]_vars

C29_Witness ==
    /\ last.op = "RefreshToken" /\ last.fault = 1
    /\ last.status = StatusInternalServerError
    /\ last.uid \in DOMAIN users
    /\ \E tok \in issued : tok.minted = "refresh" /\ tok.UUID = last.id /\ tok.UserID = last.uid
    /\ Cardinality(issued) = 2

---------------------------------------------------------------------------
(* Error propagation, specification SpecAuth *)

\* C24: a request one of whose repository calls returned an error does not
\* report success: its service error is not nil and its status is an error
\* status.
C24_NoErrorDowngrade ==
    last.fault # 0 => (last.err # NoError /\ last.status >= StatusBadRequest)

---------------------------------------------------------------------------
(* Stored secrets, specification SpecAuth *)

\* C23: the stored Password of every user is a hash and never a cleartext
\* secret; userService.Update stores the hash of a secret that is given and
\* differs from the stored value, and keeps the stored hash otherwise; no
\* other operation changes a stored Password.
C23_StoredSecretIsHash ==
    /\ [](/\ \A i \in DOMAIN users :
                /\ users[i].Password \notin AllSecrets
                /\ \E s \in AllSecrets : users[i].Password = Hash(s)
          /\ \A i \in DOMAIN users :
             \A p \in UpdatePasswords(users, i) :
                LET user == [ID |-> i, Email |-> users[i].Email, Password |-> p]
                    r == userService_Update(users, user, 0, 1)
                IN  /\ r.err = NoError
                    /\ r.users[i].Password =
                          IF p = "" \/ p = users[i].Password
                          THEN users[i].Password
                          ELSE Hash(p))
    /\ [][\A i \in DOMAIN users :
             users'[i].Password # users[i].Password
             => /\ last'.op = "UserUpdate" /\ last'.id = i /\ last'.err = NoError
                /\ \E s \in AllSecrets : users'[i].Password = Hash(s)]_vars

C23_Witness ==
    /\ last.op = "UserUpdate" /\ last.err = NoError
    /\ users[last.id].Password = Hash("secret2")
    /\ \E i \in DOMAIN users : users[i].Password = Hash("secret1")

---------------------------------------------------------------------------
(* Refreshing, specification SpecSession *)

\* minted by the same CreateToken call
SamePair(u, v) == (u + 1) \div 2 = (v + 1) \div 2

\* a minted token whose pair was presented for a refresh that was granted
Superseded(tok) == \E u \in DOMAIN refreshed : Granted(u) > 0 /\ SamePair(tok.UUID, u)

\* C28: after a refresh was granted for a pair, the refresh token and the
\* access token of the pair are accepted by their validator exactly until
\* the expiry they were minted with; minted tokens stay as they are; and a
\* refresh with an unexpired minted refresh token is granted however often
\* it was granted before.
C28_RefreshConsumesNothing ==
    /\ [](\A tok \in issued :
             Superseded(tok)
             => /\ tok.ExpiresAt = tok.IssuedAt + (IF tok.minted = "refresh"
                                                   THEN RefreshTokenHours
                                                   ELSE expiresIn)
                /\ tok.minted = "refresh"
                      => (ValidateRefreshToken(tok, now, now).err = NoError
                          <=> now < tok.ExpiresAt)
                /\ tok.minted = "access"
                      => (ValidateAccessToken(tok, now, now).err = NoError
                          <=> now < tok.ExpiresAt))
    /\ []((/\ vlast.fn # "None"
           /\ Superseded(vlast.tok)
           /\ vlast.fn = (IF vlast.tok.minted = "refresh"
                          THEN "ValidateRefreshToken" ELSE "ValidateAccessToken"))
          => (vlast.res.err = NoError
              <=> (vlast.t1 < vlast.tok.ExpiresAt /\ vlast.t2 <= vlast.tok.ExpiresAt)))
    /\ [][/\ issued \subseteq issued'
          /\ (/\ last'.op = "RefreshToken"
              /\ last'.fault = 0
              /\ \E tok \in issued :
                    /\ tok.UUID = last'.id /\ tok.minted = "refresh"
                    /\ now < tok.ExpiresAt)
             => /\ last'.err = NoError /\ last'.status = StatusOK
                /\ last'.id \in DOMAIN refreshed'
                /\ refreshed'[last'.id] = Granted(last'.id) + 1
                /\ uuids' = uuids + 2
                /\ Cardinality(issued') = Cardinality(issued) + 2]_vars

\* the refresh token of the first pair was used twice, and it and the
\* access token minted with it were accepted afterwards
C28_Witness ==
    /\ Granted(2) = 2
    /\ uuids = 6
    /\ vlast.fn = "ValidateAccessToken" /\ vlast.tok \in issued
    /\ vlast.tok.UUID = 1 /\ vlast.tok.minted = "access"
    /\ vlast.res.err = NoError
    /\ \E rt \in issued : rt.UUID = 2 /\ ValidateRefreshToken(rt, now, now).err = NoError

---------------------------------------------------------------------------
(* Concurrent requests.  gin serves every request on its own goroutine and *)
(* the services hold no lock, so the repository calls of service calls in  *)
(* progress interleave; each repository call is one statement of the       *)
(* database and atomic.  Every request of Calls makes one service call,    *)
(* on the collection and by the user of the initial state.                 *)

\* a call that returned: the operation, its target and its error
Done(op, arg, err) == [pc |-> "done", op |-> op, arg |-> arg, err |-> err]

\* the database after a registration and the creation of a collection
InitRace ==
    LET user == [Email |-> "a@x.com", Password |-> "secret1"]
        collection == [Name |-> "a", Description |-> "d", ImageURL |-> "", UserID |-> 1]
        td == CreateToken(1, user.Email, 0, DefaultExpiresIn, 0)
    IN  /\ users = userService_Create(<<>>, user, 0).users
        /\ collections = collectionService_Create(users, <<>>, <<>>, collection, 0).collections
        /\ actions = <<>>
        /\ creator = <<1>>
        /\ ctx = NoContext
        /\ last = NoOutcome
        /\ now = 0
        /\ configSource = [from |-> "env", text |-> <<>>]
        /\ expiresIn = LoadConfig(configSource)
        /\ issued = {td.AccessToken, td.RefreshToken}
        /\ uuids = 2
        /\ vlast = NoValidation
        /\ refreshed = [u \in {} |-> 0]
        /\ inflight = [p \in Calls |-> NoCall]

\* collectionService.Update, lines 108-125: the row is read, the owner is
\* compared and the fields of the request are copied onto the row read
Update_GetByID(p, collection, userID) ==
    /\ inflight[p] = NoCall
    /\ inflight' = [inflight EXCEPT ![p] =
          IF ~Found(collections, collection.ID, FALSE)
          THEN Done("Update", collection.ID, ErrCollectionNotFound)
          ELSE IF collections[collection.ID].UserID # userID
          THEN Done("Update", collection.ID, ErrNotCollectionOwner)
          ELSE [pc |-> "Update.Save", op |-> "Update", id |-> collection.ID,
                existingCollection |-> UpdateFields(collections[collection.ID], collection)]]
    /\ UNCHANGED <<users, collections, actions, creator, ctx, last, now, configSource,
                   expiresIn, issued, uuids, vlast, refreshed>>

\* collectionRepository.Update: db.Save writes every column of the row read
Update_Save(p) ==
    /\ inflight[p].pc = "Update.Save"
    /\ collections' = [collections EXCEPT ![inflight[p].id] = inflight[p].existingCollection]
    /\ inflight' = [inflight EXCEPT ![p] = Done("Update", inflight[p].id, NoError)]
    /\ UNCHANGED <<users, actions, creator, ctx, last, now, configSource,
                   expiresIn, issued, uuids, vlast, refreshed>>

\* collectionService.IncrementPlayCount, lines 163-167: the existence check
IncrementPlayCount_GetByID(p, id) ==
    /\ inflight[p] = NoCall
    /\ inflight' = [inflight EXCEPT ![p] =
          IF ~Found(collections, id, FALSE)
          THEN Done("IncrementPlayCount", id, ErrCollectionNotFound)
          ELSE [pc |-> "IncrementPlayCount.UpdateColumn", op |-> "IncrementPlayCount",
                id |-> id]]
    /\ UNCHANGED <<users, collections, actions, creator, ctx, last, now, configSource,
                   expiresIn, issued, uuids, vlast, refreshed>>

\* collectionRepository.IncrementPlayCount: UPDATE ... SET play_count =
\* play_count + 1, computed by the database on the stored value
IncrementPlayCount_UpdateColumn(p) ==
    /\ inflight[p].pc = "IncrementPlayCount.UpdateColumn"
    /\ collections' = IF Live(collections, inflight[p].id)
                      THEN [collections EXCEPT ![inflight[p].id].PlayCount = @ + 1]
                      ELSE collections
    /\ inflight' = [inflight EXCEPT ![p] = Done("IncrementPlayCount", inflight[p].id, NoError)]
    /\ UNCHANGED <<users, actions, creator, ctx, last, now, configSource,
                   expiresIn, issued, uuids, vlast, refreshed>>

\* userService.Create, lines 44-54: the email is looked up and the secret hashed
Create_GetByEmail(p, user) ==
    /\ inflight[p] = NoCall
    /\ inflight' = [inflight EXCEPT ![p] =
          IF EmailTaken(users, user.Email)
          THEN Done("Create", user.Email, ErrEmailAlreadyExists)
          ELSE [pc |-> "Create.Insert", op |-> "Create",
                user |-> [Email |-> user.Email, Password |-> Hash(user.Password)]]]
    /\ UNCHANGED <<users, collections, actions, creator, ctx, last, now, configSource,
                   expiresIn, issued, uuids, vlast, refreshed>>

\* userRepository.Create: the insert, refused by the unique index of
\* users.email when a row with the email is there by now
Create_Insert(p) ==
    /\ inflight[p].pc = "Create.Insert"
    /\ IF EmailTaken(users, inflight[p].user.Email)
       THEN /\ inflight' = [inflight EXCEPT ![p] = Done("Create", inflight[p].user.Email, ErrDB)]
            /\ UNCHANGED users
       ELSE /\ inflight' = [inflight EXCEPT ![p] = Done("Create", inflight[p].user.Email, NoError)]
            /\ users' = Append(users, inflight[p].user)
    /\ UNCHANGED <<collections, actions, creator, ctx, last, now, configSource,
                   expiresIn, issued, uuids, vlast, refreshed>>

\* collectionService.AddAction with Order 0, lines 175-188: the collection
\* is looked up and its live cards are counted
AddAction_GetByCollectionID(p, collectionID) ==
    /\ inflight[p] = NoCall
    /\ inflight' = [inflight EXCEPT ![p] =
          IF ~Found(collections, collectionID, FALSE)
          THEN Done("AddAction", collectionID, ErrCollectionNotFound)
          ELSE [pc |-> "AddAction.Create", op |-> "AddAction",
                action |-> [CollectionID |-> collectionID,
                            Order |-> Cardinality(GetByCollectionID(actions, collectionID)) + 1,
                            Deleted |-> FALSE]]]
    /\ UNCHANGED <<users, collections, actions, creator, ctx, last, now, configSource,
                   expiresIn, issued, uuids, vlast, refreshed>>

\* actionRepository.Create
AddAction_Create(p) ==
    /\ inflight[p].pc = "AddAction.Create"
    /\ actions' = Append(actions, inflight[p].action)
    /\ inflight' = [inflight EXCEPT ![p] = Done("AddAction", inflight[p].action.CollectionID, NoError)]
    /\ UNCHANGED <<users, collections, creator, ctx, last, now, configSource,
                   expiresIn, issued, uuids, vlast, refreshed>>

\* collectionService.RemoveAction, taken as one step
RemoveAction_Call(p, actionID, userID) ==
    /\ inflight[p] = NoCall
    /\ LET r == collectionService_RemoveAction(collections, actions, actionID, userID, 0) IN
       /\ actions' = r.actions
       /\ inflight' = [inflight EXCEPT ![p] = Done("RemoveAction", actionID, r.err)]
    /\ UNCHANGED <<users, collections, creator, ctx, last, now, configSource,
                   expiresIn, issued, uuids, vlast, refreshed>>

NextRace ==
    \/ \E p \in Calls, req \in {r \in CollectionRequests : r.Name # ""} :
          Update_GetByID(p, [ID |-> 1, Name |-> req.Name, Description |-> req.Description,
                             ImageURL |-> req.ImageURL], 1)
    \/ \E p \in Calls : Update_Save(p)
    \/ \E p \in Calls : IncrementPlayCount_GetByID(p, 1)
    \/ \E p \in Calls : IncrementPlayCount_UpdateColumn(p)
    \/ \E p \in Calls, e \in Emails, s \in Passwords :
          Create_GetByEmail(p, [Email |-> e, Password |-> s])
    \/ \E p \in Calls : Create_Insert(p)
    \/ \E p \in Calls : AddAction_GetByCollectionID(p, 1)
    \/ \E p \in Calls : AddAction_Create(p)
    \/ \E p \in Calls, id \in Calls : RemoveAction_Call(p, id, 1)

SpecRace == InitRace /\ [][NextRace]_vars

---------------------------------------------------------------------------
(* Properties of concurrent requests, specification SpecRace *)

AllDone == \A p \in Calls : inflight[p].pc \in {"idle", "done"}

Completed(op, err) ==
    {p \in Calls : inflight[p].pc = "done" /\ inflight[p].op = op /\ inflight[p].err = err}

\* C26: when every call of Update and IncrementPlayCount on the collection
\* has returned, its stored PlayCount is the number of IncrementPlayCount
\* calls that returned no error.
C26_NoLostIncrement ==
    AllDone => collections[1].PlayCount = Cardinality(Completed("IncrementPlayCount", NoError))

\* C27: of two registrations with the same email that no user had before,
\* both returned: one user with the email is stored, one registration
\* succeeded, and the other one got ErrEmailAlreadyExists, which Register
\* answers with 409.
C27_ConcurrentRegistration ==
    \A p, q \in Calls :
       (/\ p # q
        /\ inflight[p].pc = "done" /\ inflight[p].op = "Create"
        /\ inflight[q].pc = "done" /\ inflight[q].op = "Create"
        /\ inflight[p].arg = inflight[q].arg
        /\ inflight[p].arg # "a@x.com")
       => /\ Cardinality({i \in DOMAIN users : users[i].Email = inflight[p].arg}) = 1
          /\ \/ /\ inflight[p].err = NoError
                /\ inflight[q].err = ErrEmailAlreadyExists
                /\ AuthHandler_RegisterStatus(inflight[q].err) = StatusConflict
             \/ /\ inflight[q].err = NoError
                /\ inflight[p].err = ErrEmailAlreadyExists
                /\ AuthHandler_RegisterStatus(inflight[p].err) = StatusConflict

\* C30: no two live cards of a collection have the same Order.
C30_UniqueOrder ==
    \A a, b \in DOMAIN actions :
       (/\ a # b
        /\ ~actions[a].Deleted /\ ~actions[b].Deleted
        /\ actions[a].CollectionID = actions[b].CollectionID)
       => actions[a].Order # actions[b].Order

=============================================================================
